---- MODULE Spec2Model ----
(***************************************************************************)
(* Calibration engine of tools/snes-mapper.py and                          *)
(* tools/snes-mapper-standalone.py: baseline sampling (get_baseline), the  *)
(* per-button press / release polling loops (wait_for_button, wait_button),*)
(* the button loop of map_controller and the final write of the mapping.   *)
(*                                                                         *)
(* One behaviour is one run of one of the two scripts.  The environment is *)
(* the USB device (what each dev.read call yields) and the operator's      *)
(* Ctrl+C, which raises KeyboardInterrupt inside whatever blocking call    *)
(* (dev.read or time.sleep) the script is in.                              *)
(***************************************************************************)
EXTENDS Integers, Sequences, FiniteSets, TLC

VARIABLES
    script,            \* which file runs: "main" (snes-mapper.py) or "standalone"
    pc,                \* position of the run
    reports,           \* get_baseline: the list of samples collected so far
    samples,           \* get_baseline: iterations of range(20) completed
    baseline,          \* map_controller: baseline (None before get_baseline returns)
    mapping,           \* map_controller: the mapping dict
    btn,               \* map_controller: 1-based index of the button in the for loop
    elapsed,           \* wait loop: time.time() - start_time, in ms
    report,            \* wait loop: local report / r (last value assigned)
    detected_changes,  \* wait loop: payload recorded when the press is confirmed
    event,             \* environment: outcome of the last blocking call
    files              \* configuration files written so far

vars == <<script, pc, reports, samples, baseline, mapping, btn, elapsed,
          report, detected_changes, event, files>>

-----------------------------------------------------------------------------
(* Bounds of the model.                                                    *)

\* range(20) in get_baseline: the model takes this many samples.
SampleCount == 3

\* the for loop of map_controller runs over the first NumButtons rows of the
\* twelve-row button table.
NumButtons == 5

\* scaled clock: the timeout argument is in seconds, and a second of the model
\* lasts this many milliseconds (1000 on the real clock).
MsPerSecond == 2

-----------------------------------------------------------------------------
(* Values.                                                                 *)

\* Python's None where a report (bytes) is expected: a value no report equals.
None == << -1 >>

\* The reports the device can deliver: an empty transfer, a one-byte report
\* and three two-byte reports (so that reports of unequal length, one-byte
\* and two-byte differences all occur).
Reports == { <<>>, <<127>>, <<255, 255>>, <<127, 255>>, <<127, 127>> }

\* What one dev.read call can do: deliver a report, raise USBTimeoutError,
\* raise another USBError (no permission, device unplugged), or be hit by
\* Ctrl+C (KeyboardInterrupt raised inside the call).
DevOutcomes ==
    { [call |-> "read", kind |-> "data", data |-> r] : r \in Reports }
    \cup { [call |-> "read", kind |-> k, data |-> None] :
              k \in {"USBTimeoutError", "USBError", "KeyboardInterrupt"} }

\* What one time.sleep call can do: return, or be hit by Ctrl+C.
SleepOutcomes ==
    { [call |-> "sleep", kind |-> k, data |-> None] : k \in {"slept", "KeyboardInterrupt"} }

NoEvent == [call |-> "none", kind |-> "none", data |-> None]

\* mapping before map_controller has built it
NoMapping == [baseline |-> <<>>, report_size |-> 0, buttons |-> <<>>]

-----------------------------------------------------------------------------
(* Program constants.                                                      *)

\* read_report(dev, ep, timeout=50): per-read timeout of the polling loops, ms
ReadTimeoutMs == 50

\* time.sleep(0.01) at the end of each polling iteration, ms
SleepMs == 10

\* timeout=30 of wait_for_button, timeout=15 of wait_button, in seconds
timeout(s) == IF s = "main" THEN 30 ELSE 15

\* buttons_to_map / buttons: (display name, key name) in prompting order
buttons_to_map(s) ==
    IF s = "main"
    THEN << <<"D-PAD UP", "dpad_up">>, <<"D-PAD DOWN", "dpad_down">>,
            <<"D-PAD LEFT", "dpad_left">>, <<"D-PAD RIGHT", "dpad_right">>,
            <<"A BUTTON", "btn_a">>, <<"B BUTTON", "btn_b">>,
            <<"X BUTTON", "btn_x">>, <<"Y BUTTON", "btn_y">>,
            <<"START", "btn_start">>, <<"SELECT", "btn_select">>,
            <<"L SHOULDER", "btn_l">>, <<"R SHOULDER", "btn_r">> >>
    ELSE << <<"D-PAD UP", "up">>, <<"D-PAD DOWN", "down">>,
            <<"D-PAD LEFT", "left">>, <<"D-PAD RIGHT", "right">>,
            <<"A BUTTON", "a">>, <<"B BUTTON", "b">>,
            <<"X BUTTON", "x">>, <<"Y BUTTON", "y">>,
            <<"START", "start">>, <<"SELECT", "select">>,
            <<"L SHOULDER", "l">>, <<"R SHOULDER", "r">> >>

\* the rows the model's for loop runs over
ButtonTable(s) == SubSeq(buttons_to_map(s), 1, NumButtons)

\* mutant of key_name: every capture is stored under the first key
key_name_first(s, k) == buttons_to_map(s)[1][2]

key_name(s, k) == buttons_to_map(s)[k][2]

-----------------------------------------------------------------------------
(* Pure helpers.                                                           *)

Min(a, b) == IF a <= b THEN a ELSE b

\* truth value of `report` in `if report:`: None and b'' are false
Truthy(r) == r # None /\ Len(r) > 0

\* read_report: the value returned, or the exception that leaves the function.
\* snes-mapper.py catches USBTimeoutError and Exception; KeyboardInterrupt is
\* not an Exception and propagates.  The standalone script's bare except
\* catches everything, KeyboardInterrupt included.
read_report(s, o) ==
    CASE o.kind = "data" -> [raised |-> FALSE, value |-> o.data]
      [] o.kind = "USBTimeoutError" -> [raised |-> FALSE, value |-> None]
      [] o.kind = "USBError" -> [raised |-> FALSE, value |-> None]
      [] OTHER -> IF s = "main"
                  THEN [raised |-> TRUE, value |-> None]
                  ELSE [raised |-> FALSE, value |-> None]

\* mutant of ReadMs: read_report called with its default timeout=100
ReadMs_default_timeout(o) == IF o.kind = "USBTimeoutError" THEN 2 * ReadTimeoutMs ELSE 0

\* how long the dev.read call lasted, ms: a timeout lasts the whole per-read
\* timeout, anything else returns at once
ReadMs(o) == IF o.kind = "USBTimeoutError" THEN ReadTimeoutMs ELSE 0

\* reports.count(x)
count(list, x) == Cardinality({i \in 1..Len(list) : list[i] = x})

\* set(reports)
set(list) == {list[i] : i \in 1..Len(list)}

\* mutant of MostCommon: the first sample is taken as the baseline
MostCommon_first_sample(list) == {list[1]}

\* the values max(set(reports), key=reports.count) can return: max keeps the
\* first maximal element in the iteration order of the set, and the iteration
\* order of a set of bytes objects follows their (per-process randomised)
\* hashes, so any element of maximal count can be the one returned
MostCommon(list) ==
    {x \in set(list) : \A y \in set(list) : count(list, y) <= count(list, x)}

\* b ^ a on bytes
RECURSIVE XorBits(_, _, _)
XorBits(a, b, n) ==
    IF n = 0 THEN 0
    ELSE (IF (a % 2) # (b % 2) THEN 1 ELSE 0) + 2 * XorBits(a \div 2, b \div 2, n - 1)

Xor(a, b) == XorBits(a, b, 8)

\* bytes.hex(): two hexadecimal digits per byte, high digit first (a digit is
\* written as its value 0..15)
RECURSIVE hex(_)
hex(r) == IF r = <<>> THEN <<>> ELSE <<r[1] \div 16, r[1] % 16>> \o hex(Tail(r))

\* mutant of change: the two values are recorded the wrong way round
change_swapped(s, i, a, b) ==
    IF s = "main"
    THEN [byte |-> i, baseline |-> b, pressed |-> a, diff |-> Xor(b, a)]
    ELSE [byte |-> i, from |-> b, to |-> a]

\* one element of the changes list; snes-mapper.py builds
\* {'byte', 'baseline', 'pressed', 'diff'}, the standalone script
\* {'byte', 'from', 'to'}
change(s, i, a, b) ==
    IF s = "main"
    THEN [byte |-> i, baseline |-> a, pressed |-> b, diff |-> Xor(b, a)]
    ELSE [byte |-> i, from |-> a, to |-> b]

\* mutant of changes_of: the comparison starts at the second byte
changes_of_skip_first(s, base, r) ==
    LET n   == Min(Len(base), Len(r))
        idx == SelectSeq([i \in 1..n |-> i], LAMBDA i : i > 1 /\ base[i] # r[i])
    IN  [j \in 1..Len(idx) |-> change(s, idx[j] - 1, base[idx[j]], r[idx[j]])]

\* the changes list: for i, (a, b) in enumerate(zip(baseline, report)), the
\* positions with a != b, in increasing i; zip stops at the shorter of the two
changes_of(s, base, r) ==
    LET n   == Min(Len(base), Len(r))
        idx == SelectSeq([i \in 1..n |-> i], LAMBDA i : base[i] # r[i])
    IN  [j \in 1..Len(idx) |-> change(s, idx[j] - 1, base[idx[j]], r[idx[j]])]

\* mutant of is_press: the `if changes:` test is left out
is_press_without_changes_test(s, base, r) == Truthy(r) /\ r # base

\* mutant of is_press: any report with data counts as a press
is_press_any(s, base, r) == Truthy(r)

\* the press test of the polling loop: `if report and report != baseline:`
\* followed by `if changes:`
is_press(s, base, r) ==
    Truthy(r) /\ r # base /\ changes_of(s, base, r) # <<>>

\* mutant of is_release: a read without data ends the release loop too
is_release_or_nodata(base, r) == r = base \/ r = None

\* the release test: `report == baseline`
is_release(base, r) == r = base

\* mutant of dict_set: the assignment replaces the whole dict
dict_set_replace_all(d, k, v) == << [key |-> k, value |-> v] >>

\* mapping['buttons'][key] = value on a dict kept in insertion order
dict_set(d, k, v) ==
    IF \E i \in 1..Len(d) : d[i].key = k
    THEN [i \in 1..Len(d) |-> IF d[i].key = k THEN [key |-> k, value |-> v] ELSE d[i]]
    ELSE Append(d, [key |-> k, value |-> v])

\* mutant of capture_result: the report stored is the last one read
capture_result_last_read(s, detected, r) ==
    [changes |-> detected[1].changes, report |-> hex(r)]

\* what wait_for_button / wait_button returns after the release, as stored in
\* the mapping.  snes-mapper.py returns detected_changes[0] and stores its
\* report as hex; the standalone script returns r.hex() and changes, where r
\* is the local of the press loop.
capture_result(s, detected, r) ==
    IF s = "main"
    THEN [changes |-> detected[1].changes, report |-> hex(detected[1].report)]
    ELSE [changes |-> detected[1].changes, report |-> hex(r)]

\* the files written once map_controller has returned: generate_config writes
\* the JSON config and the C snippet, save_config the JSON config only
config_files(s) == IF s = "main" THEN {"json", "c"} ELSE {"json"}

-----------------------------------------------------------------------------
(* The run.                                                                *)

TimeoutMs == timeout(script) * MsPerSecond

Init ==
    /\ script \in {"main", "standalone"}
    /\ pc = "get_baseline_read"
    /\ reports = <<>>
    /\ samples = 0
    /\ baseline = None
    /\ mapping = NoMapping
    /\ btn = 0
    /\ elapsed = 0
    /\ report = None
    /\ detected_changes = <<>>
    /\ event = NoEvent
    /\ files = {}

\* KeyboardInterrupt that leaves map_controller uncaught (raised inside
\* get_baseline): caught at module level, "Cancelled", sys.exit(0)
Cancelled ==
    /\ pc' = "cancelled"
    /\ UNCHANGED <<script, reports, samples, baseline, mapping, btn, elapsed,
                   report, detected_changes, files>>

\* the for loop of map_controller moves on from button k: the next call of
\* wait_for_button starts with fresh locals, or the loop ends and
\* map_controller returns the mapping
next_button(k) ==
    /\ btn' = k + 1
    /\ pc' = IF k < NumButtons THEN "AwaitingPress" ELSE "generate_config"
    /\ elapsed' = 0
    /\ report' = None
    /\ detected_changes' = <<>>

\* except KeyboardInterrupt in map_controller: warn and go on with the next
\* button; nothing is stored
Skipped ==
    /\ next_button(btn)
    /\ UNCHANGED <<script, reports, samples, baseline, mapping, files>>

\* get_baseline, one read of the sampling loop
get_baseline_read ==
    /\ pc = "get_baseline_read"
    /\ \E o \in DevOutcomes :
         LET res == read_report(script, o) IN
         /\ event' = o
         /\ IF res.raised
            THEN Cancelled
            ELSE /\ reports' = IF Truthy(res.value)
                               THEN Append(reports, res.value) ELSE reports
                 /\ pc' = "get_baseline_sleep"
                 /\ UNCHANGED <<script, samples, baseline, mapping, btn, elapsed,
                                report, detected_changes, files>>

\* get_baseline, time.sleep(0.05) closing one iteration of range(20)
get_baseline_sleep ==
    /\ pc = "get_baseline_sleep"
    /\ \E o \in SleepOutcomes :
         /\ event' = o
         /\ IF o.kind = "KeyboardInterrupt"
            THEN Cancelled
            ELSE /\ samples' = samples + 1
                 /\ pc' = IF samples + 1 < SampleCount
                          THEN "get_baseline_read" ELSE "get_baseline_return"
                 /\ UNCHANGED <<script, reports, baseline, mapping, btn, elapsed,
                                report, detected_changes, files>>

\* mutant of get_baseline_exit: the empty sample list is not checked and an
\* empty baseline is handed to map_controller
get_baseline_exit_unchecked ==
    /\ pc = "get_baseline_return"
    /\ reports = <<>>
    /\ baseline' = <<>>
    /\ pc' = "map_controller"
    /\ UNCHANGED <<script, reports, samples, mapping, btn, elapsed, report,
                   detected_changes, event, files>>

\* get_baseline with no sample: error message and sys.exit(1)
get_baseline_exit ==
    /\ pc = "get_baseline_return"
    /\ reports = <<>>
    /\ pc' = "exit1"
    /\ UNCHANGED <<script, reports, samples, baseline, mapping, btn, elapsed,
                   report, detected_changes, event, files>>

\* get_baseline returns the most common sample to map_controller
get_baseline_return ==
    /\ pc = "get_baseline_return"
    /\ reports # <<>>
    /\ \E b \in MostCommon(reports) : baseline' = b
    /\ pc' = "map_controller"
    /\ UNCHANGED <<script, reports, samples, mapping, btn, elapsed, report,
                   detected_changes, event, files>>

\* map_controller builds the mapping and enters the for loop with the first
\* button (the sample list of get_baseline is gone by now)
map_controller_start ==
    /\ pc = "map_controller"
    /\ mapping' = [baseline |-> hex(baseline), report_size |-> Len(baseline),
                   buttons |-> <<>>]
    /\ reports' = <<>>
    /\ next_button(0)
    /\ UNCHANGED <<script, samples, baseline, event, files>>

\* press loop: `while time.time() - start_time < timeout`, one read_report and
\* the test for a press
wait_press_read ==
    /\ pc = "AwaitingPress"
    /\ elapsed < TimeoutMs
    /\ \E o \in DevOutcomes :
         LET res == read_report(script, o) IN
         /\ event' = o
         /\ IF res.raised
            THEN Skipped
            ELSE /\ report' = res.value
                 /\ elapsed' = elapsed + ReadMs(o)
                 /\ IF is_press(script, baseline, res.value)
                    THEN /\ detected_changes' =
                              Append(detected_changes,
                                     [report |-> res.value,
                                      changes |-> changes_of(script, baseline, res.value)])
                         /\ pc' = "AwaitingRelease"
                    ELSE /\ pc' = "press_sleep"
                         /\ UNCHANGED detected_changes
                 /\ UNCHANGED <<script, reports, samples, baseline, mapping, btn, files>>

\* press loop: time.sleep(0.01) closing one iteration
wait_press_sleep ==
    /\ pc = "press_sleep"
    /\ \E o \in SleepOutcomes :
         /\ event' = o
         /\ IF o.kind = "KeyboardInterrupt"
            THEN Skipped
            ELSE /\ elapsed' = elapsed + SleepMs
                 /\ pc' = "AwaitingPress"
                 /\ UNCHANGED <<script, reports, samples, baseline, mapping, btn,
                                report, detected_changes, files>>

\* press loop left by its condition: return None, "Timeout - skipping"
wait_press_timeout ==
    /\ pc = "AwaitingPress"
    /\ elapsed >= TimeoutMs
    /\ next_button(btn)
    /\ UNCHANGED <<script, reports, samples, baseline, mapping, event, files>>

\* release loop: one read_report and the test for the release; on release the
\* function returns and map_controller stores the result under the key
wait_release_read ==
    /\ pc = "AwaitingRelease"
    /\ \E o \in DevOutcomes :
         LET res == read_report(script, o)
             r   == IF script = "main" THEN res.value ELSE report
         IN
         /\ event' = o
         /\ IF res.raised
            THEN Skipped
            ELSE IF is_release(baseline, res.value)
                 THEN /\ mapping' =
                           [mapping EXCEPT !.buttons =
                              dict_set(@, key_name(script, btn),
                                       capture_result(script, detected_changes, r))]
                      /\ next_button(btn)
                      /\ UNCHANGED <<script, reports, samples, baseline, files>>
                 ELSE /\ report' = r
                      /\ pc' = "release_sleep"
                      /\ UNCHANGED <<script, reports, samples, baseline, mapping, btn,
                                     elapsed, detected_changes, files>>

\* release loop: time.sleep(0.01) closing one iteration
wait_release_sleep ==
    /\ pc = "release_sleep"
    /\ \E o \in SleepOutcomes :
         /\ event' = o
         /\ IF o.kind = "KeyboardInterrupt"
            THEN Skipped
            ELSE /\ pc' = "AwaitingRelease"
                 /\ UNCHANGED <<script, reports, samples, baseline, mapping, btn,
                                elapsed, report, detected_changes, files>>

\* mutant of generate_config: the files are written only for a mapping with
\* at least one entry
generate_config_needs_entries ==
    /\ pc = "generate_config"
    /\ mapping.buttons # <<>>
    /\ files' = config_files(script)
    /\ pc' = "done"
    /\ UNCHANGED <<script, reports, samples, baseline, mapping, btn, elapsed,
                   report, detected_changes, event>>

\* main() after map_controller: generate_config / save_config write the files
generate_config ==
    /\ pc = "generate_config"
    /\ files' = config_files(script)
    /\ pc' = "done"
    /\ UNCHANGED <<script, reports, samples, baseline, mapping, btn, elapsed,
                   report, detected_changes, event>>

Next ==
    \/ get_baseline_read
    \/ get_baseline_sleep
    \/ get_baseline_exit
    \/ get_baseline_return
    \/ map_controller_start
    \/ wait_press_read
    \/ wait_press_sleep
    \/ wait_press_timeout
    \/ wait_release_read
    \/ wait_release_sleep
    \/ generate_config

Spec == Init /\ [][Next]_vars

\* the read of the release loop that delivers the baseline: the operator has
\* let go of the button
release_read_baseline ==
    /\ wait_release_read
    /\ event'.kind = "data"
    /\ event'.data = baseline

\* the run under a scheduler that keeps the process running, with an operator
\* who lets go of every button pressed: a release loop that is entered again
\* and again reads the baseline at some point
SpecLive ==
    /\ Init
    /\ [][Next]_vars
    /\ WF_vars(Next)
    /\ SF_vars(release_read_baseline)

-----------------------------------------------------------------------------
(* The change computation on its own: the loop over                        *)
(* enumerate(zip(baseline, report)) applied to every pair of a baseline    *)
(* and a report of up to MaxReportLen bytes.                               *)

\* longest report of the pairs
MaxReportLen == 2

\* the byte values of the pairs
Bytes == {0, 127, 255}

ByteSeqs(lo) == UNION { [1..n -> Bytes] : n \in lo..MaxReportLen }

InitDiff ==
    /\ script \in {"main", "standalone"}
    /\ pc = "changes_input"
    /\ reports = <<>>
    /\ samples = 0
    /\ baseline \in ByteSeqs(1)
    /\ mapping = NoMapping
    /\ btn = 0
    /\ elapsed = 0
    /\ report \in ByteSeqs(0)
    /\ detected_changes = <<>>
    /\ event = NoEvent
    /\ files = {}

\* the body of `if report and report != baseline:` up to the append to
\* detected_changes, without the tests around it
compute_changes ==
    /\ pc = "changes_input"
    /\ detected_changes' =
          Append(detected_changes,
                 [report |-> report, changes |-> changes_of(script, baseline, report)])
    /\ pc' = "changes_done"
    /\ UNCHANGED <<script, reports, samples, baseline, mapping, btn, elapsed,
                   report, event, files>>

NextDiff == compute_changes

SpecDiff == InitDiff /\ [][NextDiff]_vars

-----------------------------------------------------------------------------
(* The capture loops as a function of the script: what script s does from  *)
(* a position of the button loop on one outcome of its blocking call.  The *)
(* position is held free of the scripts' naming: a change is the triple    *)
(* of its byte index, baseline value and pressed value.                    *)

canon_changes(s, changes) ==
    [j \in 1..Len(changes) |->
        << changes[j].byte,
           IF s = "main" THEN changes[j].baseline ELSE changes[j].from,
           IF s = "main" THEN changes[j].pressed ELSE changes[j].to >>]

canon_detected(s, d) ==
    [i \in 1..Len(d) |->
        [report |-> d[i].report, changes |-> canon_changes(s, d[i].changes)]]

\* the position of the run: r is the report of the press loop (the local the
\* standalone script returns), stored the captures stored by the last step
View ==
    [pc       |-> pc,
     btn      |-> btn,
     elapsed  |-> elapsed,
     base     |-> baseline,
     r        |-> IF detected_changes # <<>> THEN detected_changes[1].report ELSE report,
     detected |-> canon_detected(script, detected_changes),
     stored   |-> <<>>]

\* the for loop moves on from button v.btn (as next_button)
next_button_view(v) ==
    [v EXCEPT !.pc = IF v.btn < NumButtons THEN "AwaitingPress" ELSE "generate_config",
              !.btn = v.btn + 1,
              !.elapsed = 0,
              !.r = None,
              !.detected = <<>>]

\* one step of wait_for_button / wait_button and the loop of map_controller
\* around it, taken by script s from position v on outcome o
step(s, v, o) ==
    LET res == read_report(s, o) IN
    CASE v.pc = "AwaitingPress" /\ v.elapsed >= timeout(s) * MsPerSecond ->
            next_button_view(v)
      [] v.pc = "AwaitingPress" /\ v.elapsed < timeout(s) * MsPerSecond ->
            IF res.raised THEN next_button_view(v)
            ELSE IF is_press(s, v.base, res.value)
                 THEN [v EXCEPT !.pc = "AwaitingRelease",
                                !.elapsed = v.elapsed + ReadMs(o),
                                !.r = res.value,
                                !.detected =
                                    Append(v.detected,
                                           [report  |-> res.value,
                                            changes |-> canon_changes(s,
                                                           changes_of(s, v.base, res.value))])]
                 ELSE [v EXCEPT !.pc = "press_sleep",
                                !.elapsed = v.elapsed + ReadMs(o),
                                !.r = res.value]
      [] v.pc = "press_sleep" ->
            IF o.kind = "KeyboardInterrupt" THEN next_button_view(v)
            ELSE [v EXCEPT !.pc = "AwaitingPress", !.elapsed = v.elapsed + SleepMs]
      [] v.pc = "AwaitingRelease" ->
            IF res.raised THEN next_button_view(v)
            ELSE IF is_release(v.base, res.value)
                 THEN [next_button_view(v) EXCEPT
                          !.stored = << capture_result(s, v.detected, v.r) >>]
                 ELSE [v EXCEPT !.pc = "release_sleep"]
      [] v.pc = "release_sleep" ->
            IF o.kind = "KeyboardInterrupt" THEN next_button_view(v)
            ELSE [v EXCEPT !.pc = "AwaitingRelease"]
      [] OTHER -> v

\* the outcomes the blocking call of position p can have
Outcomes(p) ==
    IF p \in {"AwaitingPress", "AwaitingRelease"} THEN DevOutcomes ELSE SleepOutcomes

-----------------------------------------------------------------------------
(* Vocabulary of the claims.                                               *)

InPressLoop == pc \in {"AwaitingPress", "press_sleep"}

InReleaseLoop == pc \in {"AwaitingRelease", "release_sleep"}

\* the key names stored in the mapping, in insertion order
StoredKeys == [i \in 1..Len(mapping.buttons) |-> mapping.buttons[i].key]

HasEntry(k) == \E i \in 1..Len(mapping.buttons) : mapping.buttons[i].key = k

\* the same of the mapping after the step
HasEntryAfter(k) == \E i \in 1..Len(mapping'.buttons) : mapping'.buttons[i].key = k

\* this step is a blocking call of the capture loops hit by Ctrl+C
InterruptStep ==
    /\ event'.kind = "KeyboardInterrupt"
    /\ \/ pc \in {"press_sleep", "AwaitingRelease", "release_sleep"}
       \/ pc = "AwaitingPress" /\ elapsed < TimeoutMs

\* the for loop has moved on to the next button (or ended) in this step
ButtonLeft == btn >= 1 /\ btn' = btn + 1

-----------------------------------------------------------------------------
(* C1: a Ctrl+C arriving while a button is in AwaitingPress or             *)
(* AwaitingRelease skips that button: nothing is stored for it, the        *)
(* session goes on, and the for loop moves to the next button.             *)
C1_InterruptSkipsButton ==
    [][InterruptStep =>
          /\ btn' = btn + 1
          /\ mapping' = mapping
          /\ pc' \in {"AwaitingPress", "generate_config"}]_vars

\* the release loop has read the baseline: the capture returns in this step
C2_Returned ==
    pc = "AwaitingRelease" /\ event'.kind = "data" /\ event'.data = baseline

(* C2: the buttons are processed one after the other in table order, each  *)
(* once; a button is stored exactly when its capture returned (read equal  *)
(* to baseline in the release loop), under its own key, behind the entries *)
(* of the earlier buttons; a timed-out or skipped button gets no entry.    *)
C2_SequentialOrder ==
    /\ [][btn' # btn => btn' = btn + 1 /\ btn <= NumButtons]_vars
    /\ [][ButtonLeft =>
             IF C2_Returned
             THEN /\ Len(mapping'.buttons) = Len(mapping.buttons) + 1
                  /\ SubSeq(mapping'.buttons, 1, Len(mapping.buttons)) = mapping.buttons
                  /\ mapping'.buttons[Len(mapping'.buttons)].key
                        = ButtonTable(script)[btn][2]
             ELSE mapping'.buttons = mapping.buttons]_vars
    /\ [][btn' = btn => mapping'.buttons = mapping.buttons]_vars
    /\ [](pc \in {"generate_config", "done"} => btn = NumButtons + 1)
    /\ [](\A i \in 1..Len(StoredKeys) :
            \E k \in 1..(btn - 1) :
               /\ StoredKeys[i] = ButtonTable(script)[k][2]
               /\ \A j \in 1..(i - 1) :
                     \E m \in 1..(k - 1) : StoredKeys[j] = ButtonTable(script)[m][2])

\* the session is over, buttons 1..4 are stored and button 5, cancelled by
\* Ctrl+C, is not
C2_Witness ==
    /\ pc = "done"
    /\ event.kind = "KeyboardInterrupt"
    /\ StoredKeys = [i \in 1..4 |-> ButtonTable(script)[i][2]]
    /\ ~HasEntry(ButtonTable(script)[5][2])

\* a read of the press loop that timed out or delivered the baseline
C3_QuietRead ==
    /\ pc = "AwaitingPress" /\ elapsed < TimeoutMs
    /\ event'.call = "read"
    /\ \/ event'.kind = "USBTimeoutError"
       \/ event'.kind = "data" /\ event'.data = baseline

(* C3: in the press loop a read that times out or equals baseline confirms *)
(* nothing and stores nothing; the loop's clock moves on with every        *)
(* iteration, and when the loop is left by its timeout the button gets no  *)
(* entry: no partial capture exists while the loop runs or after it.       *)
C3_TimedOutAbsent ==
    /\ [][C3_QuietRead =>
             /\ pc' = "press_sleep"
             /\ btn' = btn
             /\ mapping' = mapping
             /\ detected_changes' = <<>>]_vars
    /\ [][pc = "press_sleep" /\ event'.kind = "slept" =>
             /\ pc' = "AwaitingPress"
             /\ btn' = btn
             /\ elapsed' > elapsed
             /\ mapping' = mapping]_vars
    /\ [][pc = "AwaitingPress" /\ elapsed >= TimeoutMs =>
             /\ btn' = btn + 1
             /\ mapping' = mapping
             /\ ~HasEntryAfter(ButtonTable(script)[btn][2])]_vars
    /\ [](InPressLoop => detected_changes = <<>> /\ ~HasEntry(ButtonTable(script)[btn][2]))

\* button 1 has just timed out (the last blocking call was a completed sleep
\* and the for loop is at button 2 with a fresh clock) and nothing is stored
C3_Witness ==
    /\ btn = 2
    /\ pc = "AwaitingPress"
    /\ elapsed = 0
    /\ event.kind = "slept"
    /\ mapping.buttons = <<>>

\* the press loop ends in this step without a press and without Ctrl+C
C4_PressLoopReturnsAbsent ==
    InPressLoop /\ btn' = btn + 1 /\ event'.kind # "KeyboardInterrupt"

(* C4 as stated: the press loop returns Absent with at least pressTimeout  *)
(* and less than pressTimeout plus one poll interval (the 10 ms sleep)     *)
(* elapsed.                                                                *)
C4_WithinOnePollInterval ==
    [][C4_PressLoopReturnsAbsent =>
          /\ elapsed >= TimeoutMs
          /\ elapsed < TimeoutMs + SleepMs]_vars

(* C4 amended: the press loop returns Absent only once pressTimeout has    *)
(* elapsed, stores nothing, and overshoots pressTimeout by less than one   *)
(* whole loop iteration: one read of up to the 50 ms read timeout plus the *)
(* 10 ms sleep.                                                            *)
C4_WithinOneIteration ==
    /\ [][C4_PressLoopReturnsAbsent =>
             /\ elapsed >= TimeoutMs
             /\ elapsed < TimeoutMs + ReadTimeoutMs + SleepMs
             /\ mapping' = mapping]_vars
    /\ [](InPressLoop => elapsed < TimeoutMs + ReadTimeoutMs + SleepMs)

\* the press loop is about to return Absent, nothing was confirmed, and the
\* clock stands a full sleep or more past the timeout
C4_Witness ==
    /\ pc = "AwaitingPress"
    /\ detected_changes = <<>>
    /\ elapsed >= TimeoutMs + SleepMs

(* C5: the payload recorded when the press is confirmed is the confirming  *)
(* read and its changes against baseline; no read of the release loop      *)
(* changes it, and what is stored on release is that payload.              *)
C5_PayloadImmutable ==
    /\ [][pc = "AwaitingPress" /\ pc' = "AwaitingRelease" =>
             /\ event'.kind = "data"
             /\ detected_changes' =
                   << [report  |-> event'.data,
                       changes |-> changes_of(script, baseline, event'.data)] >>]_vars
    /\ [][InReleaseLoop /\ InReleaseLoop' => detected_changes' = detected_changes]_vars
    /\ [][InReleaseLoop /\ mapping' # mapping =>
             mapping'.buttons =
                Append(mapping.buttons,
                       [key   |-> ButtonTable(script)[btn][2],
                        value |-> [changes |-> detected_changes[1].changes,
                                   report  |-> hex(detected_changes[1].report)]])]_vars

\* a button is stored although the release loop has read, after the
\* confirming report, a different report that is not the baseline either
C5_Witness ==
    /\ script = "main"
    /\ pc = "release_sleep"
    /\ Truthy(report)
    /\ report # baseline
    /\ report # detected_changes[1].report

(* C6: the release loop is left only by a read equal to baseline (the      *)
(* capture is stored and the next button starts) or by Ctrl+C; every other *)
(* read and every sleep keeps the same button in the release loop, with    *)
(* the clock of the press timeout standing still: nothing bounds the wait. *)
C6_ReleaseOnlyOnBaseline ==
    /\ [][InReleaseLoop /\ ~InReleaseLoop' =>
             \/ event'.kind = "KeyboardInterrupt"
             \/ /\ pc = "AwaitingRelease"
                /\ event'.kind = "data"
                /\ event'.data = baseline
                /\ HasEntryAfter(ButtonTable(script)[btn][2])]_vars
    /\ [][InReleaseLoop /\ InReleaseLoop' =>
             /\ btn' = btn
             /\ mapping' = mapping
             /\ elapsed' = elapsed]_vars
    /\ [][pc = "AwaitingRelease" /\ event'.call = "read"
             /\ event'.kind \in {"USBTimeoutError", "data"}
             /\ event'.data # baseline
          => pc' = "release_sleep"]_vars

\* the release loop has gone round at least once: a read that was not the
\* baseline, a sleep, and the next read is pending
C6_Witness ==
    /\ pc = "AwaitingRelease"
    /\ event.kind = "slept"
    /\ ~HasEntry(ButtonTable(script)[btn][2])

(* C7: when one value makes up a strict majority of the collected samples, *)
(* get_baseline returns that value, wherever the other samples stand.      *)
C7_StrictMajorityWins ==
    pc = "map_controller" =>
       \A v \in set(reports) :
          2 * count(reports, v) > Len(reports) => baseline = v

\* get_baseline has returned; the first sample collected is a minority
\* sample and another value holds the strict majority
C7_Witness ==
    /\ pc = "map_controller"
    /\ Len(reports) = SampleCount
    /\ baseline # reports[1]
    /\ 2 * count(reports, baseline) > Len(reports)

\* the most common value that stands first in the sample list
C8_FirstSeen(list) ==
    LET first == CHOOSE i \in 1..Len(list) :
                    /\ list[i] \in MostCommon(list)
                    /\ \A j \in 1..(i - 1) : list[j] \notin MostCommon(list)
    IN  list[first]

(* C8: when several values tie for the highest count, get_baseline returns *)
(* the tied value that was sampled first.                                  *)
C8_TieFirstSeenWins ==
    pc = "map_controller" => baseline = C8_FirstSeen(reports)

(* C9: when no read of the sampling loop yields a sample, get_baseline     *)
(* ends the run with sys.exit(1): no baseline, no mapping, no button is    *)
(* ever prompted, no file is written, and the run does nothing more.       *)
C9_NoSignalAborts ==
    /\ [][pc = "get_baseline_return" /\ reports = <<>> => pc' = "exit1"]_vars
    /\ [](pc = "exit1" =>
            /\ baseline = None
            /\ mapping = NoMapping
            /\ btn = 0
            /\ files = {})
    /\ [][pc # "exit1"]_vars
    /\ [](pc \in {"map_controller", "AwaitingPress", "generate_config", "done"}
            => Truthy(baseline))

\* every read of the sampling loop came back without a sample and the run
\* has ended with exit status 1
C9_Witness ==
    /\ pc = "exit1"
    /\ samples = SampleCount
    /\ reports = <<>>

(* C10: a device I/O failure under a read (USBError: no permission, device *)
(* unplugged) aborts the session; the polling loops never go on after it   *)
(* as they do after a plain timeout.                                       *)
C10_IOErrorAborts ==
    event.kind = "USBError" => pc \in {"exit1", "cancelled"}

(* C11: a report whose length differs from the baseline's, read during a   *)
(* button capture, aborts the session (ReportSizeMismatch): after such a   *)
(* read the run is over, it is neither diffed into a press nor passed over *)
(* with the polling going on.                                              *)
C11_SizeMismatchAborts ==
    (/\ btn >= 1
     /\ event.call = "read"
     /\ event.kind = "data"
     /\ Truthy(event.data)
     /\ Len(event.data) # Len(baseline))
    => pc \in {"exit1", "cancelled"}

\* the fields of one element of a changes list, whichever script built it
byte_of(c) == c.byte

from_of(s, c) == IF s = "main" THEN c.baseline ELSE c.from

to_of(s, c) == IF s = "main" THEN c.pressed ELSE c.to

\* the changes written over a copy of b, each at its byte index
Replay(s, b, changes) ==
    [i \in 1..Len(b) |->
        IF \E j \in 1..Len(changes) : byte_of(changes[j]) = i - 1
        THEN to_of(s, changes[CHOOSE j \in 1..Len(changes) : byte_of(changes[j]) = i - 1])
        ELSE b[i]]

(* C12: for a baseline b and a report r of the same length the changes     *)
(* list is empty exactly when r equals b; the changes of b against itself  *)
(* are empty.                                                              *)
C12_EmptyIffIdentical ==
    (pc = "changes_done" /\ Len(report) = Len(baseline)) =>
       ((detected_changes[1].changes = <<>>) <=> (report = baseline))

\* the changes of a baseline against itself have been computed
C12_Witness ==
    /\ pc = "changes_done"
    /\ report = baseline
    /\ detected_changes[1].changes = <<>>

(* C13: the changes of every stored capture, written over the session      *)
(* baseline, give the report stored with the capture.                      *)
C13_ReplayGivesStoredReport ==
    \A i \in 1..Len(mapping.buttons) :
       hex(Replay(script, baseline, mapping.buttons[i].value.changes))
          = mapping.buttons[i].value.report

\* a changes list that is not empty and whose byte indices strictly ascend
C14_Ascending(changes) ==
    /\ changes # <<>>
    /\ \A j \in 1..(Len(changes) - 1) : byte_of(changes[j]) < byte_of(changes[j + 1])

(* C14: every capture, recorded at the confirming read or stored in the    *)
(* mapping, has a changes list that is not empty and whose byte indices    *)
(* strictly ascend.                                                        *)
C14_ChangesNonEmptyAscending ==
    /\ \A i \in 1..Len(mapping.buttons) : C14_Ascending(mapping.buttons[i].value.changes)
    /\ \A i \in 1..Len(detected_changes) : C14_Ascending(detected_changes[i].changes)

\* a capture with two changed bytes is stored
C14_Witness ==
    \E i \in 1..Len(mapping.buttons) : Len(mapping.buttons[i].value.changes) = 2

\* every change of the list has the baseline's byte at its index as its
\* from/baseline value
C15_FromIsBaseline(changes) ==
    \A j \in 1..Len(changes) :
       /\ byte_of(changes[j]) + 1 \in 1..Len(baseline)
       /\ from_of(script, changes[j]) = baseline[byte_of(changes[j]) + 1]

(* C15: once get_baseline has returned, no step of the session (capture,   *)
(* timeout or skip) changes the baseline or the mapping's baseline and     *)
(* report size, which are the baseline's hex and length; every change of   *)
(* every capture, recorded or stored, has the baseline's byte at its index *)
(* as its from/baseline value.                                             *)
C15_BaselineFixed ==
    /\ [][btn >= 1 =>
             /\ baseline' = baseline
             /\ mapping'.baseline = mapping.baseline
             /\ mapping'.report_size = mapping.report_size]_vars
    /\ [](btn >= 1 =>
            /\ mapping.baseline = hex(baseline)
            /\ mapping.report_size = Len(baseline))
    /\ [](\A i \in 1..Len(mapping.buttons) :
            C15_FromIsBaseline(mapping.buttons[i].value.changes))
    /\ [](\A i \in 1..Len(detected_changes) :
            C15_FromIsBaseline(detected_changes[i].changes))

\* the session is over with three buttons stored and two without entry, the
\* last of them skipped by Ctrl+C
C15_Witness ==
    /\ pc = "done"
    /\ Len(mapping.buttons) = 3
    /\ event.kind = "KeyboardInterrupt"
    /\ mapping.baseline = hex(baseline)

(* C16: a Ctrl+C that arrives while a device read of the press or release  *)
(* loop is in progress takes effect as a skip of the current button: the   *)
(* for loop moves on and nothing is stored.                                *)
C16_CancelDuringReadSkips ==
    [][(/\ pc \in {"AwaitingPress", "AwaitingRelease"}
        /\ pc = "AwaitingPress" => elapsed < TimeoutMs
        /\ event'.call = "read"
        /\ event'.kind = "KeyboardInterrupt")
       => (btn' = btn + 1 /\ mapping' = mapping)]_vars

(* C17: in the press loop the capture's observed report is the earliest    *)
(* non-baseline read: every read that delivers a report other than the     *)
(* baseline confirms the press at once, with that report as the observed   *)
(* report.                                                                 *)
C17_EarliestNonBaselineConfirms ==
    [][(/\ pc = "AwaitingPress"
        /\ elapsed < TimeoutMs
        /\ event'.call = "read"
        /\ event'.kind = "data"
        /\ Truthy(event'.data)
        /\ event'.data # baseline)
       => (/\ pc' = "AwaitingRelease"
           /\ detected_changes' # <<>>
           /\ detected_changes'[1].report = event'.data)]_vars

(* C19: processing button k changes at most the entry of button k: every   *)
(* step keeps the entries already stored as they are and where they are,   *)
(* adds at most one entry, and that under the key of the current button;   *)
(* no button at or behind the current one has an entry.                    *)
C19_OnlyOwnEntry ==
    /\ [][btn >= 1 =>
             /\ Len(mapping'.buttons) \in {Len(mapping.buttons), Len(mapping.buttons) + 1}
             /\ \A i \in 1..Len(mapping.buttons) : mapping'.buttons[i] = mapping.buttons[i]
             /\ \A i \in (Len(mapping.buttons) + 1)..Len(mapping'.buttons) :
                   mapping'.buttons[i].key = ButtonTable(script)[btn][2]]_vars
    /\ [](\A k \in 1..NumButtons :
            k >= btn => ~HasEntry(ButtonTable(script)[k][2]))

\* two buttons are stored, a third was left by Ctrl+C and the fourth is being
\* prompted
C19_Witness ==
    /\ btn = 4
    /\ pc = "AwaitingPress"
    /\ event.kind = "KeyboardInterrupt"
    /\ Len(mapping.buttons) = 2

(* C18: once get_baseline has returned a baseline, and with every          *)
(* confirmed press followed at some point by a read equal to baseline, the *)
(* session reaches its end with every button of the table processed and   *)
(* the configuration written, whatever buttons were captured, timed out or *)
(* skipped; writing the configuration asks for no entry to be present.     *)
C18_ReachesFinalization ==
    /\ (pc = "map_controller")
          ~> (pc = "done" /\ btn = NumButtons + 1 /\ files = config_files(script))
    /\ [][pc = "generate_config" => pc' = "done" /\ files' = config_files(script)]_vars

\* the configuration has been written for a session in which no button was
\* captured
C18_Witness ==
    /\ pc = "done"
    /\ btn = NumButtons + 1
    /\ mapping.buttons = <<>>
    /\ files = config_files(script)

\* the position after the step, with the captures the step has stored
C20_ViewAfter ==
    [View' EXCEPT
        !.stored =
            [i \in 1..(Len(mapping'.buttons) - Len(mapping.buttons)) |->
                LET e == mapping'.buttons[Len(mapping.buttons) + i].value
                IN  [changes |-> canon_changes(script, e.changes), report |-> e.report]]]

\* step, taken with the running script, is the step the run takes
C20_StepIsNext ==
    [][(InPressLoop \/ InReleaseLoop) => C20_ViewAfter = step(script, View, event')]_vars

(* C20: the two scripts make the same transitions: from every position of  *)
(* the capture loops, on every outcome of the blocking call, the step      *)
(* snes-mapper.py takes and the step snes-mapper-standalone.py takes lead  *)
(* to the same position with the same captures stored (key names and the   *)
(* files written left aside).                                              *)
C20_SameEngine ==
    (InPressLoop \/ InReleaseLoop) =>
       \A o \in Outcomes(pc) : step("main", View, o) = step("standalone", View, o)

====
